---- MODULE Spec2Model ----
(***************************************************************************)
(* The client-side scripts of the blog: src/src/assets/agentic-chart.js    *)
(* (the quadrant scatter chart of agent frameworks).                       *)
(*                                                                         *)
(* Numbers.  The scores of the source are JavaScript numbers with at most  *)
(* one half (8.5, 7.5, ...): a score s is held as the integer s * ScoreUnit *)
(* (halves).  Canvas coordinates are held in sub-pixels, SubPx to a pixel,  *)
(* chosen so that every product and quotient the code computes (the linear  *)
(* scale's value-to-pixel conversion and the hook's "/ 2") is exact.        *)
(*                                                                         *)
(* Indices.  JavaScript arrays are 0-based: the datasetIndex the chart      *)
(* library hands to a callback is 0-based, and frameworks[k] of the source  *)
(* is At(frameworks, k) here.                                               *)
(*                                                                         *)
(* The chart library.  The script configures Chart.js and hands it a draw   *)
(* hook and callbacks; the library decides when they run and with which     *)
(* arguments.  The actions below are the library's calls into the script:   *)
(* a draw runs the beforeDraw hook on the chart's context, a hover runs the *)
(* title callback once on the array of tooltip items and the label callback *)
(* once per item.  The index list has no code in agentic-chart.js: it is    *)
(* modelled from the specification (IndexLinks, IndexListContent,           *)
(* RenderIndexList).                                                        *)
(***************************************************************************)
EXTENDS Integers, Sequences, FiniteSets, TLC

\* ------------------------------------------------------------------ bounds
MaxItems == 2      \* longest generated item list
MaxAreaPx == 3     \* largest chart-area coordinate, in pixels

\* ----------------------------------------------------------- number model
ScoreUnit == 2
SubPx == 2 * 10 * ScoreUnit

Num(whole) == whole * ScoreUnit
Half(whole) == whole * ScoreUnit + 1      \* whole + 0.5

\* JavaScript a[k], 0-based
At(a, k) == a[k + 1]

Min2(a, b) == IF a <= b THEN a ELSE b
Max2(a, b) == IF a >= b THEN a ELSE b

\* ------------------------------------------------------------ the items
Item(n, l, d, f, m, p) ==
  [name |-> n, link |-> l, description |-> d,
   review |-> [fit |-> f, maturity |-> m], detail_path |-> p]

\* A list with the name 'AutoGen' used twice and a fit score above 10.
EmbeddedFrameworks_Invalid ==
  << Item("AutoGen", "https://github.com/microsoft/autogen", "first", Num(3), Num(7), ""),
     Item("AutoGen", "https://github.com/microsoft/autogen", "second", Num(12), Num(4), "") >>

\* const frameworks = [...] of the source; the source's items carry no
\* detail path (detail_path = "" stands for the missing property).
EmbeddedFrameworks ==
  << Item("Pydantic AI", "https://github.com/pydantic-ai/pydantic-ai",
          "Pydantic AI: framework for building agentic applications with Pydantic, focused on type safety and developer experience.",
          Half(8), Num(8), ""),
     Item("Google ADK", "https://github.com/google/adk",
          "Google's Agent Development Kit: production-grade, multi-agent, model-agnostic, code-first, rapidly evolving.",
          Num(5), Num(3), ""),
     Item("LangGraph (LangChain)", "https://github.com/langchain-ai/langgraph",
          "LangGraph: expressive, graph-based agent orchestration for complex, stateful, multi-agent workflows.",
          Num(5), Num(8), ""),
     Item("BeeAI Framework", "https://github.com/i-am-bee/beeai-framework",
          "BeeAI: multi-agent, Python/TypeScript, production-ready, highly flexible, open-source.",
          Half(5), Half(7), ""),
     Item("CrewAI", "https://github.com/joaomdmoura/crewAI",
          "CrewAI: role-based, collaborative multi-agent framework for workflow composition and agent specialization.",
          Num(4), Num(7), ""),
     Item("OpenAI Agents SDK", "https://github.com/openai/swarm",
          "OpenAI Agents SDK: lightweight, ergonomic, production-ready for multi-agent orchestration (formerly Swarm).",
          Num(4), Half(7), ""),
     Item("SmolAgents (Hugging Face)", "https://github.com/huggingface/smolagents",
          "SmolAgents: minimalist, code-first, code-executing agents, efficient and open-source.",
          Num(8), Half(6), ""),
     Item("AutoGen (Microsoft)", "https://github.com/microsoft/autogen",
          "AutoGen: multi-agent, LLM-powered conversations and workflows, strong on agent-to-agent communication.",
          Num(3), Num(7), ""),
     Item("Agent Zero", "https://aiagentstore.ai/ai-agent/agent-zero",
          "Agent Zero: open-source, highly customizable, supports dynamic, interactive, and multi-agent systems.",
          Num(3), Num(3), ""),
     Item("MetaGPT", "https://github.com/geekan/MetaGPT",
          "MetaGPT: multi-agent, collaborative software engineering and automation, role-based agent teams.",
          Num(1), Num(4), ""),
     Item("Haystack Agents", "https://github.com/deepset-ai/haystack",
          "Haystack Agents: agentic pipelines for search, retrieval, and reasoning, strong LLM and knowledge base integration.",
          Half(6), Num(7), "") >>

\* Items the generated lists are drawn from: the spec's scenario (A, B), one
\* item in each quadrant, a second item named "A", an item on the x midline,
\* two items at one position (C, G) and an item whose scores lie outside
\* [0, 10].
ItemPool ==
  { Item("A", "", "d1", Half(8), Num(8), ""),
    Item("B", "", "d2", Num(1), Num(2), "/reviews/b/"),
    Item("A", "", "d3", Num(3), Num(7), "/reviews/a2/"),
    Item("C", "", "d4", Num(7), Num(7), ""),
    Item("D", "", "d5", Num(7), Num(3), "/reviews/d/"),
    Item("E", "", "d6", Num(3), Num(3), ""),
    Item("F", "", "d7", Num(5), Num(3), ""),
    Item("G", "", "d8", Num(7), Num(7), "/reviews/g/"),
    Item("H", "", "d9", Num(11), Num(0 - 1), "") }

IsInjective(f) == \A i, j \in DOMAIN f : f[i] = f[j] => i = j

\* The item lists: the embedded one, and every list of at most MaxItems
\* different pool items, in every order.
ItemLists ==
  {EmbeddedFrameworks} \cup
  UNION { { f \in [1..n -> ItemPool] : IsInjective(f) } : n \in 0..MaxItems }

\* ------------------------------------------------------- the chart areas
Area(l, t, r, b) == [defined |-> TRUE, left |-> l, top |-> t, right |-> r, bottom |-> b]
NoArea == [defined |-> FALSE, left |-> 0, top |-> 0, right |-> 0, bottom |-> 0]

\* The plot areas the library's layout may produce: a rectangle of positive
\* width and height on the canvas (y grows downwards), inset by the same
\* margin at the left and at the top.
ChartAreas ==
  { Area(m * SubPx, m * SubPx, r * SubPx, MaxAreaPx * SubPx) :
      m \in 0..1, r \in (MaxAreaPx - 1)..MaxAreaPx }

\* ------------------------------------------------- the chart configuration
\* All items as the points of one shared dataset.
Datasets_Shared(fws) ==
  << [ label |-> "Frameworks",
       data |-> [ i \in 1..Len(fws) |->
                    [x |-> fws[i].review.fit, y |-> fws[i].review.maturity] ],
       backgroundColor |-> "rgba(75, 192, 192, 1)" ] >>

\* The scores clamped to the axis range [0, 10].
Datasets_Clamped(fws) ==
  [ i \in 1..Len(fws) |->
      [ label |-> fws[i].name,
        data |-> << [ x |-> Max2(Num(0), Min2(Num(10), fws[i].review.fit)),
                      y |-> Max2(Num(0), Min2(Num(10), fws[i].review.maturity)) ] >>,
        backgroundColor |-> "rgba(75, 192, 192, 1)" ] ]

\* datasets: frameworks.map(fw => ({label, data: [{x, y}], backgroundColor}))
Datasets(fws) ==
  [ i \in 1..Len(fws) |->
      [ label |-> fws[i].name,
        data |-> << [x |-> fws[i].review.fit, y |-> fws[i].review.maturity] >>,
        backgroundColor |-> "rgba(75, 192, 192, 1)" ] ]

\* The scales with the y axis running from 10 down to 0.
Scales_YDownwards ==
  [ x |-> [ title |-> [display |-> TRUE, text |-> "Fit"],
            type |-> "linear", position |-> "bottom",
            min |-> Num(0), max |-> Num(10) ],
    y |-> [ title |-> [display |-> TRUE, text |-> "Maturity"],
            min |-> Num(10), max |-> Num(0) ] ]

\* options.scales
Scales ==
  [ x |-> [ title |-> [display |-> TRUE, text |-> "Fit"],
            type |-> "linear", position |-> "bottom",
            min |-> Num(0), max |-> Num(10) ],
    y |-> [ title |-> [display |-> TRUE, text |-> "Maturity"],
            min |-> Num(0), max |-> Num(10) ] ]

\* The options with the hover mode 'index', which puts the point of every
\* dataset into hover style together with the hovered one.
Options_HoverIndex ==
  [ responsive |-> FALSE,
    plugins |->
      [ legend |-> [display |-> FALSE],
        tooltip |-> [enabled |-> TRUE],
        datalabels |-> [align |-> "top", anchor |-> "end", display |-> TRUE] ],
    hover |-> [mode |-> "index"],
    scales |-> Scales ]

\* options
Options ==
  [ responsive |-> FALSE,
    plugins |->
      [ legend |-> [display |-> FALSE],
        tooltip |-> [enabled |-> TRUE],
        datalabels |-> [align |-> "top", anchor |-> "end", display |-> TRUE] ],
    hover |-> [mode |-> "null"],
    scales |-> Scales ]

\* The second argument of new Chart(ctx, {...})
ChartConfig(fws) ==
  [ type |-> "scatter",
    data |-> [datasets |-> Datasets(fws)],
    options |-> Options,
    plugins |-> <<"quadrantBackground">> ]

\* scales.x.getPixelForValue(v) / scales.y.getPixelForValue(v) of a linear
\* scale laid out over the chart area: x grows to the right from the left
\* edge, y grows upwards from the bottom edge.
getPixelForValue(axis, scale, area, v) ==
  IF axis = "x"
    THEN area.left + ((v - scale.min) * (area.right - area.left)) \div (scale.max - scale.min)
    ELSE area.bottom - ((v - scale.min) * (area.bottom - area.top)) \div (scale.max - scale.min)

\* scales.x.getValueForPixel(p) / scales.y.getValueForPixel(p): the value a
\* pixel stands for under the same layout.
getValueForPixel(axis, scale, area, p) ==
  IF axis = "x"
    THEN scale.min + ((p - area.left) * (scale.max - scale.min)) \div (area.right - area.left)
    ELSE scale.min + ((area.bottom - p) * (scale.max - scale.min)) \div (area.bottom - area.top)

\* ------------------------------------------------------- the 2D context
\* One call on (or assignment to) the CanvasRenderingContext2D.
Cmd(o, str, px, py, pw, ph) == [op |-> o, s |-> str, x |-> px, y |-> py, w |-> pw, h |-> ph]
Save == Cmd("save", "", 0, 0, 0, 0)
Restore == Cmd("restore", "", 0, 0, 0, 0)
SetFillStyle(c) == Cmd("fillStyle", c, 0, 0, 0, 0)
SetFont(f) == Cmd("font", f, 0, 0, 0, 0)
SetTextAlign(a) == Cmd("textAlign", a, 0, 0, 0, 0)
SetTextBaseline(b) == Cmd("textBaseline", b, 0, 0, 0, 0)
FillRect(px, py, pw, ph) == Cmd("fillRect", "", px, py, pw, ph)
FillText(t, px, py) == Cmd("fillText", t, px, py, 0, 0)

\* The drawing state of a fresh 2D context.
DefaultDrawState ==
  [ fillStyle |-> "#000000", font |-> "10px sans-serif",
    textAlign |-> "start", textBaseline |-> "alphabetic" ]

\* state: the drawing state; stack: the states saved; calls: the calls made
\* during the latest draw, in order; painted: what that draw painted.
FreshCanvas ==
  [state |-> DefaultDrawState, stack |-> <<>>, calls |-> <<>>, painted |-> <<>>]

\* What one command does to the drawing state, the stack and the painting:
\* save pushes the drawing state, restore pops it (and does nothing on an
\* empty stack), an assignment sets one property, fillRect and fillText
\* paint with the current state.
ApplyCmd(cv, c) ==
  CASE c.op = "save" ->
         [cv EXCEPT !.stack = Append(cv.stack, cv.state)]
    [] c.op = "restore" ->
         IF cv.stack = <<>> THEN cv
         ELSE [cv EXCEPT !.state = cv.stack[Len(cv.stack)],
                         !.stack = SubSeq(cv.stack, 1, Len(cv.stack) - 1)]
    [] c.op = "fillStyle" -> [cv EXCEPT !.state.fillStyle = c.s]
    [] c.op = "font" -> [cv EXCEPT !.state.font = c.s]
    [] c.op = "textAlign" -> [cv EXCEPT !.state.textAlign = c.s]
    [] c.op = "textBaseline" -> [cv EXCEPT !.state.textBaseline = c.s]
    [] OTHER ->
         [cv EXCEPT !.painted =
            Append(cv.painted,
                   [ op |-> c.op, text |-> c.s, x |-> c.x, y |-> c.y,
                     w |-> c.w, h |-> c.h,
                     fillStyle |-> cv.state.fillStyle, font |-> cv.state.font,
                     textAlign |-> cv.state.textAlign,
                     textBaseline |-> cv.state.textBaseline,
                     depth |-> Len(cv.stack) ])]

\* One call on the context: logged, then applied.
ExecCmd(cv, c) == ApplyCmd([cv EXCEPT !.calls = Append(cv.calls, c.op)], c)

RECURSIVE Exec(_, _)
Exec(cv, cmds) ==
  IF cmds = <<>> THEN cv
  ELSE Exec(ExecCmd(cv, Head(cmds)), Tail(cmds))

\* ------------------------------------------- the quadrant-background hook
\* const colors = [...]
colors ==
  << "rgba(205, 255, 205, 0.4)",
     "rgba(205, 235, 255, 0.4)",
     "rgba(255, 205, 205, 0.4)",
     "rgba(255, 235, 205, 0.4)" >>

\* QuadrantFills with the last rectangle started at the left edge (the
\* bottom-left call's first argument copied to the bottom-right call).
QuadrantFills_Q4FromLeft(area, xMid, yMid) ==
  << Save,
     SetFillStyle(At(colors, 0)),
     FillRect(xMid, area.top, area.right - xMid, yMid - area.top),
     SetFillStyle(At(colors, 1)),
     FillRect(area.left, area.top, xMid - area.left, yMid - area.top),
     SetFillStyle(At(colors, 2)),
     FillRect(area.left, yMid, xMid - area.left, area.bottom - yMid),
     SetFillStyle(At(colors, 3)),
     FillRect(area.left, yMid, area.right - xMid, area.bottom - yMid),
     Restore >>

\* QuadrantFills with the right edge and the bottom edge passed where
\* fillRect takes a width and a height.
QuadrantFills_EdgesAsExtents(area, xMid, yMid) ==
  << Save,
     SetFillStyle(At(colors, 0)),
     FillRect(xMid, area.top, area.right, yMid),
     SetFillStyle(At(colors, 1)),
     FillRect(area.left, area.top, xMid, yMid),
     SetFillStyle(At(colors, 2)),
     FillRect(area.left, yMid, xMid, area.bottom),
     SetFillStyle(At(colors, 3)),
     FillRect(xMid, yMid, area.right, area.bottom),
     Restore >>

\* QuadrantFills without the ctx.restore() that ends the block.
QuadrantFills_NoRestore(area, xMid, yMid) ==
  << Save,
     SetFillStyle(At(colors, 0)),
     FillRect(xMid, area.top, area.right - xMid, yMid - area.top),
     SetFillStyle(At(colors, 1)),
     FillRect(area.left, area.top, xMid - area.left, yMid - area.top),
     SetFillStyle(At(colors, 2)),
     FillRect(area.left, yMid, xMid - area.left, area.bottom - yMid),
     SetFillStyle(At(colors, 3)),
     FillRect(xMid, yMid, area.right - xMid, area.bottom - yMid) >>

\* The first save ... restore block of the hook: the four fills, in the
\* order top-right, top-left, bottom-left, bottom-right.
QuadrantFills(area, xMid, yMid) ==
  << Save,
     SetFillStyle(At(colors, 0)),
     FillRect(xMid, area.top, area.right - xMid, yMid - area.top),
     SetFillStyle(At(colors, 1)),
     FillRect(area.left, area.top, xMid - area.left, yMid - area.top),
     SetFillStyle(At(colors, 2)),
     FillRect(area.left, yMid, xMid - area.left, area.bottom - yMid),
     SetFillStyle(At(colors, 3)),
     FillRect(xMid, yMid, area.right - xMid, area.bottom - yMid),
     Restore >>

\* QuadrantLabels with the 'Adopt' and 'Avoid' texts exchanged.
QuadrantLabels_Swapped(area, xMid, yMid) ==
  << Save,
     SetFont("bold 18px sans-serif"),
     SetTextAlign("center"),
     SetTextBaseline("middle"),
     SetFillStyle("#333"),
     FillText("Avoid", xMid + (area.right - xMid) \div 2,
              area.top + (yMid - area.top) \div 2),
     FillText("Maintain", area.left + (xMid - area.left) \div 2,
              area.top + (yMid - area.top) \div 2),
     FillText("Adopt", area.left + (xMid - area.left) \div 2,
              yMid + (area.bottom - yMid) \div 2),
     FillText("Investigate", xMid + (area.right - xMid) \div 2,
              yMid + (area.bottom - yMid) \div 2),
     Restore >>

\* QuadrantLabels with the upper two labels anchored at the outer corners of
\* the chart area and the lower two centred.
QuadrantLabels_MixedPlacement(area, xMid, yMid) ==
  << Save,
     SetFont("bold 18px sans-serif"),
     SetTextAlign("center"),
     SetTextBaseline("middle"),
     SetFillStyle("#333"),
     FillText("Adopt", area.right, area.top),
     FillText("Maintain", area.left, area.top),
     FillText("Avoid", area.left + (xMid - area.left) \div 2,
              yMid + (area.bottom - yMid) \div 2),
     FillText("Investigate", xMid + (area.right - xMid) \div 2,
              yMid + (area.bottom - yMid) \div 2),
     Restore >>

\* The second save ... restore block of the hook: the four labels.
QuadrantLabels(area, xMid, yMid) ==
  << Save,
     SetFont("bold 18px sans-serif"),
     SetTextAlign("center"),
     SetTextBaseline("middle"),
     SetFillStyle("#333"),
     FillText("Adopt", xMid + (area.right - xMid) \div 2,
              area.top + (yMid - area.top) \div 2),
     FillText("Maintain", area.left + (xMid - area.left) \div 2,
              area.top + (yMid - area.top) \div 2),
     FillText("Avoid", area.left + (xMid - area.left) \div 2,
              yMid + (area.bottom - yMid) \div 2),
     FillText("Investigate", xMid + (area.right - xMid) \div 2,
              yMid + (area.bottom - yMid) \div 2),
     Restore >>

\* The hook splitting the area at the value 6 on both axes.
beforeDraw_SplitAtSix(area, scales) ==
  IF ~area.defined THEN <<>>
  ELSE
    LET xMid == getPixelForValue("x", scales.x, area, Num(6))
        yMid == getPixelForValue("y", scales.y, area, Num(6))
    IN QuadrantFills(area, xMid, yMid) \o QuadrantLabels(area, xMid, yMid)

\* The hook without the guard on chartArea.
beforeDraw_NoGuard(area, scales) ==
  LET xMid == getPixelForValue("x", scales.x, area, Num(5))
      yMid == getPixelForValue("y", scales.y, area, Num(5))
  IN QuadrantFills(area, xMid, yMid) \o QuadrantLabels(area, xMid, yMid)

\* quadrantBackground.beforeDraw(chart) with chart = {ctx, chartArea, scales}:
\* the calls it makes on ctx, in order; none when chartArea is not set.
beforeDraw(area, scales) ==
  IF ~area.defined THEN <<>>
  ELSE
    LET xMid == getPixelForValue("x", scales.x, area, Num(5))
        yMid == getPixelForValue("y", scales.y, area, Num(5))
    IN QuadrantFills(area, xMid, yMid) \o QuadrantLabels(area, xMid, yMid)

Has(seq, e) == \E i \in 1..Len(seq) : seq[i] = e

\* The draw whose hook runs in the first draw only: later draws repaint what
\* the hook painted then.
DrawChart_HookOnce(cv, chart, area) ==
  IF cv.calls # <<>>
    THEN [cv EXCEPT !.painted =
            SelectSeq(cv.painted, LAMBDA e : e.op \in {"fillRect", "fillText"})]
    ELSE Exec([cv EXCEPT !.painted = <<>>, !.calls = <<>>],
              beforeDraw(area, chart.config.options.scales))

\* chart.draw(), first part: the library clears the canvas and runs the
\* beforeDraw hook of the plugin given in the chart's plugins: [...] on the
\* chart's context.
DrawChart(cv, chart, area) ==
  LET cleared == [cv EXCEPT !.painted = <<>>, !.calls = <<>>]
  IN IF Has(chart.config.plugins, "quadrantBackground")
       THEN Exec(cleared, beforeDraw(area, chart.config.options.scales))
       ELSE cleared

\* --------------------------------------------------- hover and the tooltip
\* options.plugins.tooltip.callbacks.title(context)
TooltipTitle(context) == At(context, 0).dataset.label

\* The label callback returning the item's name instead of its description.
TooltipLabel_Name(fws, context) == At(fws, context.datasetIndex).name

\* The label callback looking the description up by name: the first item
\* whose name is the dataset's label.
TooltipLabel_ByName(fws, context) ==
  LET first == CHOOSE i \in 1..Len(fws) :
                 /\ fws[i].name = context.dataset.label
                 /\ \A j \in 1..(i - 1) : fws[j].name # context.dataset.label
  IN fws[first].description

\* options.plugins.tooltip.callbacks.label(context): the description is
\* looked up in the frameworks list by the dataset index.
TooltipLabel(fws, context) == At(fws, context.datasetIndex).description

\* Pixel position of the single data point of dataset k (0-based).
PointPixel(chart, area, k) ==
  LET d == At(At(chart.config.data.datasets, k).data, 0)
  IN [ x |-> getPixelForValue("x", chart.config.options.scales.x, area, d.x),
       y |-> getPixelForValue("y", chart.config.options.scales.y, area, d.y) ]

\* The tooltip items the library hands to the callbacks for a pointer at
\* pixel pos: one per data point lying at that pixel, in dataset order (the
\* scatter chart's interaction mode is 'point').
TooltipItems(chart, area, pos) ==
  LET n == Len(chart.config.data.datasets)
      all == [ i \in 1..n |->
                 [ dataset |-> chart.config.data.datasets[i],
                   datasetIndex |-> i - 1, dataIndex |-> 0 ] ]
  IN SelectSeq(all, LAMBDA it : PointPixel(chart, area, it.datasetIndex) = pos)

NoTooltip == [shown |-> FALSE, title |-> "", body |-> <<>>, items |-> <<>>]

\* The tooltip the library builds from the callbacks: the title once, from
\* the whole item array, and one body line per item.
BuildTooltip(fws, items) ==
  [ shown |-> TRUE,
    title |-> TooltipTitle(items),
    body |-> [ j \in 1..Len(items) |-> TooltipLabel(fws, items[j]) ],
    items |-> [ j \in 1..Len(items) |-> items[j].datasetIndex ] ]

\* ------------------------------------------- points, data labels, legend
\* The formatter reading the name through the data index, which is 0 for
\* every point of this chart.
formatter_ByDataIndex(value, context) ==
  At(context.chart.data.datasets, context.dataIndex).label

\* options.plugins.datalabels.formatter(value, context)
formatter(value, context) == context.dataset.label

\* The elements the library puts into hover style for a pointer on point k,
\* by options.hover.mode: none for null (no such interaction mode), the
\* points at the pointer's pixel for 'point' and 'nearest', the point of
\* the same data index in every dataset for 'index', the hovered dataset's
\* points for 'dataset'.
HoverActive(chart, area, k) ==
  LET mode == chart.config.options.hover.mode
      n == Len(chart.config.data.datasets)
  IN CASE mode = "null" -> {}
       [] mode \in {"point", "nearest"} ->
            { j \in 0..(n - 1) :
                PointPixel(chart, area, j) = PointPixel(chart, area, k) }
       [] mode = "index" -> 0..(n - 1)
       [] mode = "dataset" -> {k}
       [] OTHER -> {}

\* What the library paints after the beforeDraw hooks: the point of every
\* dataset (in hover style for the active ones), then, when the datalabels
\* plugin is registered and its display option is on, one label per point
\* with the formatter's text, aligned as configured, then the legend when
\* its display option is on.
LibraryPaints(chart, area, act) ==
  LET ds == chart.config.data.datasets
      n == Len(ds)
      opts == chart.config.options.plugins
      ctxOf(i) == [ chart |-> [data |-> [datasets |-> ds]], dataset |-> ds[i],
                    datasetIndex |-> i - 1, dataIndex |-> 0 ]
      points == [ i \in 1..n |->
                    [ op |-> "point", index |-> i - 1,
                      x |-> PointPixel(chart, area, i - 1).x,
                      y |-> PointPixel(chart, area, i - 1).y,
                      fillStyle |-> ds[i].backgroundColor,
                      hover |-> (i - 1) \in act ] ]
      labels == IF Has(chart.registry, "datalabels") /\ opts.datalabels.display
                  THEN [ i \in 1..n |->
                           [ op |-> "datalabel", index |-> i - 1,
                             text |-> formatter(At(ds[i].data, 0), ctxOf(i)),
                             x |-> PointPixel(chart, area, i - 1).x,
                             y |-> PointPixel(chart, area, i - 1).y,
                             align |-> opts.datalabels.align,
                             anchor |-> opts.datalabels.anchor ] ]
                  ELSE <<>>
      legend == IF opts.legend.display
                  THEN << [ op |-> "legend",
                            labels |-> [i \in 1..n |-> ds[i].label] ] >>
                  ELSE <<>>
  IN points \o labels \o legend

\* chart.draw(), the whole: the hook, then the library's own painting (none
\* of it before the chart has been laid out).
RenderFrame(cv, chart, area, act) ==
  LET hooked == DrawChart(cv, chart, area)
  IN IF area.defined
       THEN [hooked EXCEPT !.painted = @ \o LibraryPaints(chart, area, act)]
       ELSE hooked

\* ------------------------------------------------------ the index list
\* The index links without the filter on detail_path.
IndexLinks_Unfiltered(fws) ==
  [ j \in 1..Len(fws) |-> [text |-> fws[j].name, href |-> fws[j].detail_path] ]

\* The auxiliary index list: the items with a non-empty detail_path, in item
\* order, each a link (text: name, target: detail_path).
IndexLinks(fws) ==
  LET qualifying == SelectSeq(fws, LAMBDA fw : fw.detail_path # "")
  IN [ j \in 1..Len(qualifying) |->
         [text |-> qualifying[j].name, href |-> qualifying[j].detail_path] ]

\* The header and the list rendered also when no item qualifies.
IndexListContent_Always(fws) ==
  << [tag |-> "header", links |-> <<>>],
     [tag |-> "list", links |-> IndexLinks(fws)] >>

\* What is rendered into the list region: nothing when no item qualifies,
\* otherwise a header followed by the list of links.
IndexListContent(fws) ==
  IF IndexLinks(fws) = <<>> THEN <<>>
  ELSE << [tag |-> "header", links |-> <<>>],
          [tag |-> "list", links |-> IndexLinks(fws)] >>

VARIABLES
  frameworks,          \* the item list
  canvasPresent,       \* the page has an element with id 'agentic-ratings'
  context2d,           \* that element's getContext('2d') returns a context
  listContainer,       \* the page has the container of the index list
  phase,               \* "script": the script has not run yet | "loading":
                       \* it has, the handler waits | "ready":
                       \* DOMContentLoaded has fired
  registered,          \* the plugins registered with Chart.register
  handlerError,        \* exception that escaped the page-ready handler
  charts,              \* the Chart instances constructed, in order
  chartArea,           \* chart.chartArea of the attached chart
  canvas,              \* the 2D context: drawing state, save stack, paints
  pointer,             \* the point (0-based) the pointer is on, -1: none
  active,              \* the points (0-based) shown in hover style
  tooltip,             \* the tooltip displayed
  listRegion,          \* content of the index-list region
  listRendered         \* the index list has been rendered

\* A page with the review script (review.js)
VARIABLES
  articlePresent,      \* the page has an article element
  tocPresent,          \* the page has an element with id 'toc'
  headers,             \* the article's h2 and h3 elements, in document order
  tocContent,          \* the content of the 'toc' element
  tocPhase,            \* "loading" | "ready": DOMContentLoaded has fired
  tocError             \* exception that escaped the review script's handler

tocVars == <<articlePresent, tocPresent, headers, tocContent, tocPhase, tocError>>

vars == <<frameworks, canvasPresent, context2d, listContainer, phase,
          registered, handlerError, charts, chartArea, canvas, pointer,
          active, tooltip, listRegion, listRendered, tocVars>>

\* The content of an empty element.
EmptyContent == [title |-> <<>>, entries |-> <<>>]

\* A page without the review script: nothing of it ever changes.
NoReviewPage ==
  /\ articlePresent = FALSE
  /\ tocPresent = FALSE
  /\ headers = <<>>
  /\ tocContent = EmptyContent
  /\ tocPhase = "loading"
  /\ tocError = "none"

\* The attached chart (the last one constructed on a real context).
HasChart == charts # <<>> /\ charts[Len(charts)].attached
TheChart == charts[Len(charts)]

\* new Chart(ctx, config): the instance the library constructs, with the
\* plugins registered at that time.  Without a context the library cannot
\* acquire the canvas and the instance stays unattached: it is never laid
\* out, drawn or hovered.
NewChart(ctx, config) ==
  [ ctx |-> ctx, config |-> config, attached |-> ctx # "null",
    registry |-> registered ]

Init ==
  /\ frameworks \in ItemLists
  /\ canvasPresent \in BOOLEAN
  /\ context2d \in (IF canvasPresent THEN BOOLEAN ELSE {FALSE})
  /\ listContainer \in BOOLEAN
  /\ phase = "script"
  /\ registered = <<>>
  /\ handlerError = "none"
  /\ charts = <<>>
  /\ chartArea = NoArea
  /\ canvas = FreshCanvas
  /\ pointer = 0 - 1
  /\ active = {}
  /\ tooltip = NoTooltip
  /\ listRegion = <<>>
  /\ listRendered = FALSE
  /\ NoReviewPage

\* The handler installed without the registration of the plugin.
EvaluateScript_NoRegister ==
  /\ phase = "script"
  /\ phase' = "loading"
  /\ UNCHANGED <<frameworks, canvasPresent, context2d, listContainer,
                 registered, handlerError, charts, chartArea, canvas, pointer,
                 active, tooltip, listRegion, listRendered>>
  /\ UNCHANGED tocVars

\* The script's top level, run once when the page loads it:
\* Chart.register(ChartDataLabels), then document.addEventListener, which
\* installs the page-ready handler.
EvaluateScript ==
  /\ phase = "script"
  /\ registered' = Append(registered, "datalabels")
  /\ phase' = "loading"
  /\ UNCHANGED <<frameworks, canvasPresent, context2d, listContainer,
                 handlerError, charts, chartArea, canvas, pointer, active,
                 tooltip, listRegion, listRendered>>
  /\ UNCHANGED tocVars

\* document.addEventListener('DOMContentLoaded', function () {...}): the
\* whole handler, run when the signal fires.  getElementById returns null for a missing element, and
\* the call of getContext on null throws a TypeError that leaves the
\* handler; otherwise new Chart is called with whatever getContext returned
\* (a context or null).  The constructor of an attached chart lays the chart
\* out and draws it before it returns (area: the layout's result; NoArea:
\* the draw ran before a chart area was set).
DOMContentLoaded ==
  /\ phase = "loading"
  /\ phase' = "ready"
  /\ IF ~canvasPresent
       THEN /\ handlerError' = "TypeError"
            /\ UNCHANGED <<charts, chartArea, canvas>>
       ELSE LET ctx == IF context2d THEN "2d" ELSE "null"
                chart == NewChart(ctx, ChartConfig(frameworks))
            IN /\ charts' = Append(charts, chart)
               /\ handlerError' = "none"
               /\ IF chart.attached
                    THEN \E area \in ChartAreas \cup {NoArea} :
                           /\ chartArea' = area
                           /\ canvas' = RenderFrame(canvas, chart, area, active)
                    ELSE UNCHANGED <<chartArea, canvas>>
  /\ UNCHANGED <<frameworks, canvasPresent, context2d, listContainer,
                 registered, pointer, active, tooltip, listRegion, listRendered>>
  /\ UNCHANGED tocVars

\* chart.update() / resize by the library: a new layout, then a redraw.
Update(area) ==
  /\ HasChart
  /\ chartArea' = area
  /\ canvas' = RenderFrame(canvas, TheChart, area, active)
  /\ UNCHANGED <<frameworks, canvasPresent, context2d, listContainer, phase,
                 registered, handlerError, charts, pointer, active, tooltip,
                 listRegion, listRendered>>
  /\ UNCHANGED tocVars

\* A redraw with the current layout.
Draw ==
  /\ HasChart
  /\ canvas' = RenderFrame(canvas, TheChart, chartArea, active)
  /\ UNCHANGED <<frameworks, canvasPresent, context2d, listContainer, phase,
                 registered, handlerError, charts, chartArea, pointer, active,
                 tooltip, listRegion, listRendered>>
  /\ UNCHANGED tocVars

\* The hover handling that keeps the tooltip of the earlier target and adds
\* the new target's lines to it.
Hover_KeepsEarlier(k) ==
  /\ HasChart
  /\ chartArea.defined
  /\ LET items == TooltipItems(TheChart, chartArea, PointPixel(TheChart, chartArea, k))
         new == BuildTooltip(frameworks, items)
     IN tooltip' = IF tooltip.shown
                     THEN [new EXCEPT !.title = tooltip.title,
                                      !.body = tooltip.body \o new.body,
                                      !.items = tooltip.items \o new.items]
                     ELSE new
  /\ pointer' = k
  /\ active' = HoverActive(TheChart, chartArea, k)
  /\ canvas' = RenderFrame(canvas, TheChart, chartArea, active')
  /\ UNCHANGED <<frameworks, canvasPresent, context2d, listContainer, phase,
                 registered, handlerError, charts, chartArea, listRegion,
                 listRendered>>
  /\ UNCHANGED tocVars

\* The hover handling with a label callback that takes the first item off
\* the list (frameworks.shift()) when it is called.
Hover_ShiftsItems(k) ==
  /\ HasChart
  /\ chartArea.defined
  /\ LET items == TooltipItems(TheChart, chartArea, PointPixel(TheChart, chartArea, k))
     IN tooltip' = BuildTooltip(frameworks, items)
  /\ frameworks' = Tail(frameworks)
  /\ pointer' = k
  /\ active' = HoverActive(TheChart, chartArea, k)
  /\ canvas' = RenderFrame(canvas, TheChart, chartArea, active')
  /\ UNCHANGED <<canvasPresent, context2d, listContainer, phase,
                 registered, handlerError, charts, chartArea, listRegion,
                 listRendered>>
  /\ UNCHANGED tocVars

\* The pointer moves onto the pixel of point k: the library sets the
\* hover-styled elements by the hover mode, collects the tooltip items
\* there, calls the title and label callbacks, replaces the tooltip
\* displayed and redraws.
Hover(k) ==
  /\ HasChart
  /\ chartArea.defined
  /\ LET items == TooltipItems(TheChart, chartArea, PointPixel(TheChart, chartArea, k))
     IN tooltip' = BuildTooltip(frameworks, items)
  /\ pointer' = k
  /\ active' = HoverActive(TheChart, chartArea, k)
  /\ canvas' = RenderFrame(canvas, TheChart, chartArea, active')
  /\ UNCHANGED <<frameworks, canvasPresent, context2d, listContainer, phase,
                 registered, handlerError, charts, chartArea, listRegion,
                 listRendered>>
  /\ UNCHANGED tocVars

\* The pointer leaves every point: the tooltip is hidden and no element
\* stays in hover style.
HoverOut ==
  /\ HasChart
  /\ tooltip.shown
  /\ tooltip' = NoTooltip
  /\ pointer' = 0 - 1
  /\ active' = {}
  /\ canvas' = RenderFrame(canvas, TheChart, chartArea, active')
  /\ UNCHANGED <<frameworks, canvasPresent, context2d, listContainer, phase,
                 registered, handlerError, charts, chartArea, listRegion,
                 listRendered>>
  /\ UNCHANGED tocVars

\* Rendering of the auxiliary index list into its container; skipped (no
\* step) when the container is absent.
RenderIndexList ==
  /\ phase = "ready"
  /\ listContainer
  /\ listRegion' = IndexListContent(frameworks)
  /\ listRendered' = TRUE
  /\ UNCHANGED <<frameworks, canvasPresent, context2d, listContainer, phase,
                 registered, handlerError, charts, chartArea, canvas, pointer,
                 active, tooltip>>
  /\ UNCHANGED tocVars

Next ==
  \/ EvaluateScript
  \/ DOMContentLoaded
  \/ \E area \in ChartAreas : Update(area)
  \/ Draw
  \/ \E k \in 0..(Len(frameworks) - 1) : Hover(k)
  \/ HoverOut
  \/ RenderIndexList

Spec == Init /\ [][Next]_vars

\* ===================================================================
\* The table of contents of a review page (review.js)
\* ===================================================================
\* Bound: the number of h2/h3 headers of an article.
MaxHeaders == 2

\* Strings are sequences of one-character strings.
UpperLetters ==
  << "A", "B", "C", "D", "E", "F", "G", "H", "I", "J", "K", "L", "M",
     "N", "O", "P", "Q", "R", "S", "T", "U", "V", "W", "X", "Y", "Z" >>
LowerLetters ==
  << "a", "b", "c", "d", "e", "f", "g", "h", "i", "j", "k", "l", "m",
     "n", "o", "p", "q", "r", "s", "t", "u", "v", "w", "x", "y", "z" >>
Digits == {"0", "1", "2", "3", "4", "5", "6", "7", "8", "9"}

\* \s of a regular expression, and the characters trim() strips.
WhiteSpace == {" ", "\t", "\n"}

\* \w of a regular expression: [A-Za-z0-9_]
WordChars ==
  {UpperLetters[i] : i \in DOMAIN UpperLetters} \cup
  {LowerLetters[i] : i \in DOMAIN LowerLetters} \cup Digits \cup {"_"}

\* String.prototype.trim()
RECURSIVE TrimStart(_)
TrimStart(str) ==
  IF str # <<>> /\ Head(str) \in WhiteSpace THEN TrimStart(Tail(str)) ELSE str
RECURSIVE TrimEnd(_)
TrimEnd(str) ==
  IF str # <<>> /\ str[Len(str)] \in WhiteSpace
    THEN TrimEnd(SubSeq(str, 1, Len(str) - 1))
    ELSE str
trim(str) == TrimEnd(TrimStart(str))

\* String.prototype.toLowerCase()
LowerChar(c) ==
  IF \E i \in DOMAIN UpperLetters : UpperLetters[i] = c
    THEN LowerLetters[CHOOSE i \in DOMAIN UpperLetters : UpperLetters[i] = c]
    ELSE c
toLowerCase(str) == [i \in 1..Len(str) |-> LowerChar(str[i])]

\* .replace(/\s+/g, "-"): every maximal run of white space becomes one "-".
RECURSIVE ReplaceSpaceRuns(_)
ReplaceSpaceRuns(str) ==
  IF str = <<>> THEN <<>>
  ELSE IF Head(str) \in WhiteSpace
    THEN <<"-">> \o ReplaceSpaceRuns(TrimStart(str))
    ELSE <<Head(str)>> \o ReplaceSpaceRuns(Tail(str))

\* .replace(/[^\w\-]+/g, ""): every character that is neither a word
\* character nor "-" is dropped.
RemoveNonWord(str) == SelectSeq(str, LAMBDA c : c \in WordChars \cup {"-"})

\* The id generated from a header's text (line 13).
GeneratedId(textContent) ==
  RemoveNonWord(ReplaceSpaceRuns(toLowerCase(trim(textContent))))

Header(tag, ident, text) == [tagName |-> tag, id |-> ident, textContent |-> text]

\* The headers of the pages considered: h2 and h3, with an id given in the
\* page source (in lower case or not) or without one (the empty id), with
\* texts of mixed case, with white space at the ends and in runs, with
\* punctuation, with a text of punctuation only, with an empty text, with
\* the markup of a tag as text, and with texts that generate the same id
\* as another text or as an id given in the page source.
HeaderPool ==
  {
    Header("H2", << >>,
           << "I", "n", "t", "r", "o" >>),
    Header("H3", << >>,
           << "I", "n", "t", "r", "o" >>),
    Header("H2", << "i", "n", "t", "r", "o" >>,
           << "I", "n", "t", "r", "o" >>),
    Header("H3", << "T", "o", "p" >>,
           << "I", "n", "t", "r", "o" >>),
    Header("H3", << >>,
           << " ", "M", "y", " ", "\t", "F", "i", "t", "!", "\n" >>),
    Header("H2", << >>,
           << "m", "y", "-", "f", "i", "t" >>),
    Header("H2", << >>,
           << "Q", "&", "A", " ", "2" >>),
    Header("H3", << >>,
           << "?", "!" >>),
    Header("H2", << >>,
           << "a", "_", "b", " ", "-", " ", "c" >>),
    Header("H3", << >>,
           << "T", "h", "e", " ", "<", "l", "i", ">", " ", "t", "a", "g" >>),
    Header("H2", << "i", "n", "t", "r", "o" >>,
           << >>),
    Header("H2", << >>,
           << >>) }

HeaderLists == UNION { [1..n -> HeaderPool] : n \in 0..MaxHeaders }

\* A page without the chart script: nothing of it ever changes.
chartVars == <<frameworks, canvasPresent, context2d, listContainer, phase,
               registered, handlerError, charts, chartArea, canvas, pointer,
               active, tooltip, listRegion, listRendered>>

NoChartPage ==
  /\ frameworks = <<>>
  /\ canvasPresent = FALSE
  /\ context2d = FALSE
  /\ listContainer = FALSE
  /\ phase = "script"
  /\ registered = <<>>
  /\ handlerError = "none"
  /\ charts = <<>>
  /\ chartArea = NoArea
  /\ canvas = FreshCanvas
  /\ pointer = 0 - 1
  /\ active = {}
  /\ tooltip = NoTooltip
  /\ listRegion = <<>>
  /\ listRendered = FALSE

\* A review page when its script has been loaded: with or without an
\* article, with or without the 'toc' element (empty in the page source);
\* the headers are those of the article.
InitToc ==
  /\ NoChartPage
  /\ articlePresent \in BOOLEAN
  /\ tocPresent \in BOOLEAN
  /\ headers \in (IF articlePresent THEN HeaderLists ELSE {<<>>})
  /\ tocContent = EmptyContent
  /\ tocPhase = "loading"
  /\ tocError = "none"

\* The pieces of the template literals of lines 9, 15, 16 and 18.
TocOpening ==
  << "<", "d", "i", "v", " ", "c", "l", "a", "s", "s", "=", "\"", "t", "o",
     "c", "-", "t", "i", "t", "l", "e", "\"", ">", "T", "a", "b", "l", "e",
     " ", "o", "f", " ", "C", "o", "n", "t", "e", "n", "t", "s", "<", "/",
     "d", "i", "v", ">", "<", "u", "l", " ", "c", "l", "a", "s", "s", "=",
     "\"", "t", "o", "c", "-", "l", "i", "s", "t", "\"", ">" >>
IndentAttr ==
  << " ", "c", "l", "a", "s", "s", "=", "'", "t", "o", "c", "-", "i", "n",
     "d", "e", "n", "t", "'" >>
LiOpen ==
  << "<", "l", "i" >>
AnchorOpen ==
  << ">", "<", "a", " ", "h", "r", "e", "f", "=", "\"", "#" >>
AnchorOpenEnd ==
  << "\"", ">" >>
LiClose ==
  << "<", "/", "a", ">", "<", "/", "l", "i", ">" >>
TocClosing ==
  << "<", "/", "u", "l", ">" >>

\* The markup appended for one header (lines 15-16): the id and the text
\* are put into the string as they are.
TocEntry(header) ==
  LET indent == IF header.tagName = "H3" THEN IndentAttr ELSE <<>>
  IN LiOpen \o indent \o AnchorOpen \o header.id \o AnchorOpenEnd \o
     header.textContent \o LiClose

\* tocHTML after the forEach over the headers hs and line 18.
RECURSIVE TocEntries(_)
TocEntries(hs) ==
  IF hs = <<>> THEN <<>> ELSE TocEntry(Head(hs)) \o TocEntries(Tail(hs))
tocHTML(hs) == TocOpening \o TocEntries(hs) \o TocClosing

\* ---- toc.innerHTML = tocHTML (line 19): the browser parses the string.
\* The tokens of the string: a start tag begins at "<" followed by a letter,
\* an end tag at "</" followed by a letter, anything else is text; a tag
\* name ends at white space, "/" or ">"; an attribute value is quoted by
\* " or ' or runs to white space or ">"; a tag cut off by the end of the
\* string is dropped.  Character references and comments are not covered.
Letters ==
  {UpperLetters[i] : i \in DOMAIN UpperLetters} \cup
  {LowerLetters[i] : i \in DOMAIN LowerLetters}

RECURSIVE FindIn(_, _, _)
FindIn(h, i, S) == IF i > Len(h) \/ h[i] \in S THEN i ELSE FindIn(h, i + 1, S)

RECURSIVE SkipWhite(_, _)
SkipWhite(h, i) ==
  IF i <= Len(h) /\ h[i] \in WhiteSpace THEN SkipWhite(h, i + 1) ELSE i

WithAttr(a, r) == [r EXCEPT !.list = <<a>> \o @]
CutOff(i) == [eof |-> TRUE, list |-> <<>>, next |-> i]

\* The attributes from position i0 up to the ">" that ends the tag.
RECURSIVE Attributes(_, _)
Attributes(h, i0) ==
  LET i == SkipWhite(h, i0)
  IN IF i > Len(h) THEN CutOff(i)
     ELSE IF h[i] = ">" THEN [eof |-> FALSE, list |-> <<>>, next |-> i + 1]
     ELSE IF h[i] = "/" THEN Attributes(h, i + 1)
     ELSE
       LET n == FindIn(h, i + 1, WhiteSpace \cup {"=", ">", "/"})
           name == toLowerCase(SubSeq(h, i, n - 1))
           m == SkipWhite(h, n)
       IN IF m <= Len(h) /\ h[m] = "="
            THEN LET v == SkipWhite(h, m + 1)
                 IN IF v > Len(h) THEN CutOff(v)
                    ELSE IF h[v] \in {"\"", "'"}
                      THEN LET e == FindIn(h, v + 1, {h[v]})
                           IN IF e > Len(h) THEN CutOff(e)
                              ELSE WithAttr([name |-> name, value |-> SubSeq(h, v + 1, e - 1)],
                                            Attributes(h, e + 1))
                      ELSE LET e == FindIn(h, v, WhiteSpace \cup {">"})
                           IN WithAttr([name |-> name, value |-> SubSeq(h, v, e - 1)],
                                       Attributes(h, e))
            ELSE WithAttr([name |-> name, value |-> <<>>], Attributes(h, n))

Token(k, n, a, c) == [kind |-> k, name |-> n, attrs |-> a, chars |-> c]

RECURSIVE Tokens(_, _)
Tokens(h, i) ==
  IF i > Len(h) THEN <<>>
  ELSE IF h[i] = "<" /\ i + 1 <= Len(h) /\ h[i + 1] \in Letters
    THEN LET n == FindIn(h, i + 1, WhiteSpace \cup {"/", ">"})
             a == Attributes(h, n)
         IN IF a.eof THEN <<>>
            ELSE <<Token("start", toLowerCase(SubSeq(h, i + 1, n - 1)), a.list, <<>>)>>
                 \o Tokens(h, a.next)
  ELSE IF h[i] = "<" /\ i + 2 <= Len(h) /\ h[i + 1] = "/" /\ h[i + 2] \in Letters
    THEN LET n == FindIn(h, i + 2, WhiteSpace \cup {"/", ">"})
             a == Attributes(h, n)
         IN IF a.eof THEN <<>>
            ELSE <<Token("end", toLowerCase(SubSeq(h, i + 2, n - 1)), <<>>, <<>>)>>
                 \o Tokens(h, a.next)
  ELSE LET n == FindIn(h, i + 1, {"<"})
       IN <<Token("text", <<>>, <<>>, SubSeq(h, i, n - 1))>> \o Tokens(h, n)

\* The value of the first attribute of that name (none: the empty string).
AttrValue(attrs, name) ==
  IF \E j \in 1..Len(attrs) : attrs[j].name = name
    THEN attrs[CHOOSE j \in 1..Len(attrs) :
                 /\ attrs[j].name = name
                 /\ \A k \in 1..(j - 1) : attrs[k].name # name].value
    ELSE <<>>

ClassAttr == << "c", "l", "a", "s", "s" >>
HrefAttr == << "h", "r", "e", "f" >>
TocTitleClass == << "t", "o", "c", "-", "t", "i", "t", "l", "e" >>
TocIndentClass == << "t", "o", "c", "-", "i", "n", "d", "e", "n", "t" >>

\* What the tokens make of the element's content: the text of the title
\* div, and one entry per li element -- every <li> start tag creates one,
\* also inside an open li, which it closes -- with its class, the target of
\* its link (the link open when the li started, which the parser carries
\* over, or else the first <a> inside it) and its text.
ContentStep(acc, t) ==
  LET n == Len(acc.entries)
  IN CASE t.kind = "start" /\ t.name = <<"d", "i", "v">> ->
            [acc EXCEPT !.inTitle = (AttrValue(t.attrs, ClassAttr) = TocTitleClass)]
       [] t.kind = "end" /\ t.name = <<"d", "i", "v">> ->
            [acc EXCEPT !.inTitle = FALSE]
       [] t.kind = "start" /\ t.name = <<"l", "i">> ->
            [acc EXCEPT !.entries =
               Append(@, [ indent |-> AttrValue(t.attrs, ClassAttr) = TocIndentClass,
                           href |-> acc.openHref, text |-> <<>> ])]
       [] t.kind = "start" /\ t.name = <<"a">> ->
            [acc EXCEPT !.openHref = AttrValue(t.attrs, HrefAttr),
                        !.entries = IF n > 0 /\ @[n].href = <<>>
                                      THEN [@ EXCEPT ![n].href = AttrValue(t.attrs, HrefAttr)]
                                      ELSE @]
       [] t.kind = "end" /\ t.name = <<"a">> ->
            [acc EXCEPT !.openHref = <<>>]
       [] t.kind = "text" ->
            IF acc.inTitle THEN [acc EXCEPT !.title = @ \o t.chars]
            ELSE IF n > 0 THEN [acc EXCEPT !.entries[n].text = @ \o t.chars]
            ELSE acc
       [] OTHER -> acc

RECURSIVE ContentFrom(_, _, _)
ContentFrom(tokens, k, acc) ==
  IF k > Len(tokens) THEN [title |-> acc.title, entries |-> acc.entries]
  ELSE ContentFrom(tokens, k + 1, ContentStep(acc, tokens[k]))

\* The content of an element after element.innerHTML = html.
innerHTML(html) ==
  ContentFrom(Tokens(html, 1), 1,
              [title |-> <<>>, entries |-> <<>>, inTitle |-> FALSE, openHref |-> <<>>])

\* The forEach giving a generated id that an earlier header of the list
\* has been given already the suffix "-2".
WithIds_Deduplicated(hs) ==
  [ i \in 1..Len(hs) |->
      IF hs[i].id = <<>>
        THEN LET g == GeneratedId(hs[i].textContent)
                 taken == \E j \in 1..(i - 1) :
                            hs[j].id = <<>> /\ GeneratedId(hs[j].textContent) = g
             IN [hs[i] EXCEPT !.id = IF taken THEN g \o <<"-", "2">> ELSE g]
        ELSE hs[i] ]

\* The headers after the forEach: a header without id has got the id
\* generated from its text, any other is as it was.
WithIds(hs) ==
  [ i \in 1..Len(hs) |->
      IF hs[i].id = <<>>
        THEN [hs[i] EXCEPT !.id = GeneratedId(hs[i].textContent)]
        ELSE hs[i] ]

\* The handler without the return on an empty header list.
ReviewDOMContentLoaded_NoHeaderGuard ==
  /\ tocPhase = "loading"
  /\ tocPhase' = "ready"
  /\ tocError' = "none"
  /\ IF ~articlePresent \/ ~tocPresent
       THEN UNCHANGED <<headers, tocContent>>
       ELSE /\ headers' = WithIds(headers)
            /\ tocContent' = innerHTML(tocHTML(headers'))
  /\ UNCHANGED <<articlePresent, tocPresent>>
  /\ UNCHANGED chartVars

\* document.addEventListener("DOMContentLoaded", function () {...}) of
\* review.js: the whole handler.  It returns without an article or without
\* the 'toc' element, and again when the article has no h2/h3; otherwise it
\* gives every id-less header an id, builds the title and one entry per
\* header, and sets the content of 'toc' once.
ReviewDOMContentLoaded ==
  /\ tocPhase = "loading"
  /\ tocPhase' = "ready"
  /\ tocError' = "none"
  /\ IF ~articlePresent \/ ~tocPresent
       THEN UNCHANGED <<headers, tocContent>>
       ELSE IF Len(headers) = 0
         THEN UNCHANGED <<headers, tocContent>>
         ELSE /\ headers' = WithIds(headers)
              /\ tocContent' = innerHTML(tocHTML(headers'))
  /\ UNCHANGED <<articlePresent, tocPresent>>
  /\ UNCHANGED chartVars

NextToc == ReviewDOMContentLoaded

SpecToc == InitToc /\ [][NextToc]_vars

\* ===================================================================
\* Properties
\* ===================================================================
Rects == SelectSeq(canvas.painted, LAMBDA e : e.op = "fillRect")
Texts == SelectSeq(canvas.painted, LAMBDA e : e.op = "fillText")

\* Pixel of the value (5, 5) under the attached chart's scales.
MidPixel ==
  [ x |-> getPixelForValue("x", TheChart.config.options.scales.x, chartArea, Num(5)),
    y |-> getPixelForValue("y", TheChart.config.options.scales.y, chartArea, Num(5)) ]

\* The rectangle fillRect(x, y, w, h) paints, as closed intervals (a negative
\* width or height extends to the left or upwards).
InRectClosed(r, p) ==
  /\ Min2(r.x, r.x + r.w) <= p.x /\ p.x <= Max2(r.x, r.x + r.w)
  /\ Min2(r.y, r.y + r.h) <= p.y /\ p.y <= Max2(r.y, r.y + r.h)

\* The same rectangle as half-open pixel ranges [x, x+w) by [y, y+h).
InRect(r, p) ==
  /\ Min2(r.x, r.x + r.w) <= p.x /\ p.x < Max2(r.x, r.x + r.w)
  /\ Min2(r.y, r.y + r.h) <= p.y /\ p.y < Max2(r.y, r.y + r.h)

\* The labels a position (in score units) is to resolve to.
ExpectedLabels(fit, maturity) ==
  CASE fit > Num(5) /\ maturity > Num(5) -> {"Adopt"}
    [] fit < Num(5) /\ maturity > Num(5) -> {"Maintain"}
    [] fit < Num(5) /\ maturity < Num(5) -> {"Avoid"}
    [] fit > Num(5) /\ maturity < Num(5) -> {"Watch", "Investigate"}
    [] OTHER -> {}

\* Pixel p and the anchor of label t lie on the same side of both dividing
\* lines (on the canvas y grows downwards: "high y" is a smaller pixel y).
SameQuadrant(t, p) ==
  /\ (t.x > MidPixel.x) <=> (p.x > MidPixel.x)
  /\ (t.x < MidPixel.x) <=> (p.x < MidPixel.x)
  /\ (t.y > MidPixel.y) <=> (p.y > MidPixel.y)
  /\ (t.y < MidPixel.y) <=> (p.y < MidPixel.y)

OffMidlines(fw) == fw.review.fit # Num(5) /\ fw.review.maturity # Num(5)
InRange(fw) ==
  /\ Num(0) <= fw.review.fit /\ fw.review.fit <= Num(10)
  /\ Num(0) <= fw.review.maturity /\ fw.review.maturity <= Num(10)

Drawn == HasChart /\ chartArea.defined

\* C1: in every draw, each item off the dividing lines lies in the quadrant
\* whose label its position relative to (5, 5) names ('Adopt' high-x/high-y,
\* 'Maintain' low-x/high-y, 'Avoid' low-x/low-y, 'Watch'/'Investigate'
\* high-x/low-y), whatever the order of the items: exactly one label is
\* drawn on the point's side of both dividing lines, it is the expected
\* one, and for scores within [0, 10] one painted rectangle holds both the
\* point and that label.
C1_QuadrantOfPosition ==
  Drawn =>
    \A k \in 0..(Len(frameworks) - 1) :
      LET fw == At(frameworks, k)
          p == PointPixel(TheChart, chartArea, k)
          here == { i \in 1..Len(Texts) : SameQuadrant(Texts[i], p) }
      IN OffMidlines(fw) =>
           /\ Cardinality(here) = 1
           /\ \A i \in here :
                /\ Texts[i].text \in ExpectedLabels(fw.review.fit, fw.review.maturity)
                /\ InRange(fw) =>
                     \E j \in 1..Len(Rects) :
                       /\ InRectClosed(Rects[j], p)
                       /\ InRectClosed(Rects[j], Texts[i])

\* The spec's scenario [A(8.5, 8), B(1, 2)] has been drawn.
C1_Witness ==
  /\ Drawn
  /\ Len(frameworks) = 2
  /\ frameworks[1].name = "A" /\ frameworks[1].review.fit = Half(8)
  /\ frameworks[1].review.maturity = Num(8)
  /\ frameworks[2].name = "B" /\ frameworks[2].review.fit = Num(1)
  /\ Len(Texts) = 4 /\ Len(Rects) = 4

\* Left edges of the cells the painted rectangles cut the chart area into
\* (a half-open rectangle covers all of a cell or none of it, so a cell is
\* covered as its top-left corner is).
CellXs ==
  { x \in {chartArea.left} \cup UNION { {Rects[j].x, Rects[j].x + Rects[j].w} : j \in 1..Len(Rects) } :
      chartArea.left <= x /\ x < chartArea.right }
CellYs ==
  { y \in {chartArea.top} \cup UNION { {Rects[j].y, Rects[j].y + Rects[j].h} : j \in 1..Len(Rects) } :
      chartArea.top <= y /\ y < chartArea.bottom }

RectWithinArea(r) ==
  /\ chartArea.left <= Min2(r.x, r.x + r.w) /\ Max2(r.x, r.x + r.w) <= chartArea.right
  /\ chartArea.top <= Min2(r.y, r.y + r.h) /\ Max2(r.y, r.y + r.h) <= chartArea.bottom

\* C7: the four rectangles of one draw partition the chart area: each lies
\* within it, every point of it is covered by exactly one of them (full
\* cover, no overlap), each has the midpoint pixel as a corner, they are
\* painted in the order top-right, top-left, bottom-left, bottom-right, and
\* their fill colours are pairwise different.
C7_RectsPartitionArea ==
  Drawn =>
    /\ Len(Rects) = 4
    /\ \A j \in 1..4 : RectWithinArea(Rects[j])
    /\ \A x \in CellXs, y \in CellYs :
         Cardinality({ j \in 1..4 : InRect(Rects[j], [x |-> x, y |-> y]) }) = 1
    /\ \A j \in 1..4 :
         /\ MidPixel.x \in {Rects[j].x, Rects[j].x + Rects[j].w}
         /\ MidPixel.y \in {Rects[j].y, Rects[j].y + Rects[j].h}
    /\ InRectClosed(Rects[1], [x |-> chartArea.right, y |-> chartArea.top])
    /\ InRectClosed(Rects[2], [x |-> chartArea.left, y |-> chartArea.top])
    /\ InRectClosed(Rects[3], [x |-> chartArea.left, y |-> chartArea.bottom])
    /\ InRectClosed(Rects[4], [x |-> chartArea.right, y |-> chartArea.bottom])
    /\ Cardinality({ Rects[j].fillStyle : j \in 1..4 }) = 4

\* A draw over a chart area that is not square and does not start at the
\* canvas origin has painted its four rectangles.
C7_Witness ==
  /\ Drawn
  /\ Len(Rects) = 4
  /\ chartArea.left > 0 /\ chartArea.top > 0
  /\ chartArea.right - chartArea.left # chartArea.bottom - chartArea.top
  /\ Cardinality(CellXs) = 2 /\ Cardinality(CellYs) = 2

\* Items i and j (0-based) are plotted at one position.
SamePosition(i, j) == At(frameworks, i).review = At(frameworks, j).review

\* The indices of the items plotted where item k is, in item order.
RECURSIVE CoLocatedFrom(_, _)
CoLocatedFrom(k, j) ==
  IF j >= Len(frameworks) THEN <<>>
  ELSE (IF SamePosition(k, j) THEN <<j>> ELSE <<>>) \o CoLocatedFrom(k, j + 1)
CoLocated(k) == CoLocatedFrom(k, 0)

TooltipOn == tooltip.shown /\ pointer >= 0

C4_MissingCanvasNoOp ==
  (phase = "ready" /\ ~canvasPresent) =>
    /\ handlerError = "none"
    /\ charts = <<>>

\* C5: with the canvas present and getContext('2d') returning null, the
\* handler skips rendering: no chart is constructed on a null context and
\* no error is raised.
C5_NullContextSkipped ==
  (phase = "ready" /\ canvasPresent /\ ~context2d) =>
    /\ handlerError = "none"
    /\ \A c \in 1..Len(charts) : charts[c].ctx # "null"

\* C6: every chart is constructed with exactly one dataset per item, in
\* item order; dataset i carries the label Item[i].name and exactly one
\* data point, (fit, maturity) of item i.
C6_OneDatasetPerItem ==
  \A c \in 1..Len(charts) :
    LET ds == charts[c].config.data.datasets
    IN /\ Len(ds) = Len(frameworks)
       /\ \A i \in 1..Len(frameworks) :
            /\ ds[i].label = frameworks[i].name
            /\ Len(ds[i].data) = 1
            /\ ds[i].data[1] = [ x |-> frameworks[i].review.fit,
                                 y |-> frameworks[i].review.maturity ]

\* A chart has been constructed from two items of different names.
C6_Witness ==
  /\ charts # <<>>
  /\ Len(frameworks) = 2
  /\ frameworks[1].name # frameworks[2].name
  /\ frameworks[1].review # frameworks[2].review

\* C8: whatever the item list, the x and the y scale are configured with
\* min 0 and max 10, and every score reaches the chart as it is in the item,
\* also a score outside [0, 10].
C8_FixedAxesNoClamp ==
  \A c \in 1..Len(charts) :
    LET sc == charts[c].config.options.scales
        ds == charts[c].config.data.datasets
    IN /\ sc.x.min = Num(0) /\ sc.x.max = Num(10)
       /\ sc.y.min = Num(0) /\ sc.y.max = Num(10)
       /\ \A i \in 1..Len(ds) :
            \A d \in 1..Len(ds[i].data) :
              /\ ds[i].data[d].x = frameworks[i].review.fit
              /\ ds[i].data[d].y = frameworks[i].review.maturity

\* A chart has been constructed from a list with a score above 10 and a
\* score below 0.
C8_Witness ==
  /\ charts # <<>>
  /\ \E i \in 1..Len(frameworks) :
       /\ frameworks[i].review.fit > Num(10)
       /\ frameworks[i].review.maturity < Num(0)

\* The links of the rendered region (none when nothing is rendered).
RenderedLinks ==
  IF listRegion = <<>> THEN <<>> ELSE listRegion[Len(listRegion)].links

Qualifying == { i \in 1..Len(frameworks) : frameworks[i].detail_path # "" }

\* C9: once rendered, the index list holds exactly the items with a
\* non-empty detail_path, in item order, each as a link with the item's
\* name as text and its detail_path as target; an item without a
\* detail_path has no link.
C9_IndexListOfDetailPaths ==
  listRendered =>
    /\ Len(RenderedLinks) = Cardinality(Qualifying)
    /\ \E f \in [1..Len(RenderedLinks) -> Qualifying] :
         /\ \A a, b \in 1..Len(RenderedLinks) : a < b => f[a] < f[b]
         /\ \A a \in 1..Len(RenderedLinks) :
              RenderedLinks[a] = [ text |-> frameworks[f[a]].name,
                                   href |-> frameworks[f[a]].detail_path ]

\* The list has been rendered for two items of which only the second has a
\* detail_path.
C9_Witness ==
  /\ listRendered
  /\ Len(frameworks) = 2
  /\ frameworks[1].detail_path = ""
  /\ frameworks[2].detail_path # ""
  /\ Len(RenderedLinks) = 1

\* C10: when no item has a detail_path the list region is empty, before
\* and after any number of renders: it holds neither a header nor a list.
C10_NothingWithoutDetailPath ==
  Qualifying = {} =>
    /\ listRegion = <<>>
    /\ \A e \in 1..Len(listRegion) : listRegion[e].tag \notin {"header", "list"}

\* The list has been rendered for a non-empty item list without any
\* detail_path.
C10_Witness ==
  /\ listRendered
  /\ frameworks # <<>>
  /\ Qualifying = {}

\* ---------------------------------------------------------------- C11
Points == SelectSeq(canvas.painted, LAMBDA e : e.op = "point")
DataLabels == SelectSeq(canvas.painted, LAMBDA e : e.op = "datalabel")

\* C11: whenever the chart is drawn, hovered or not, exactly one data label
\* is displayed per item, in item order; the label of item k sits at the
\* pixel of point k, anchored at the point's end and aligned to its top
\* (above the point), and its text is the name of item k.
C11_DataLabelPerPoint ==
  Drawn =>
    /\ Len(DataLabels) = Len(frameworks)
    /\ \A k \in 0..(Len(frameworks) - 1) :
         LET l == At(DataLabels, k)
         IN /\ l.index = k
            /\ l.text = At(frameworks, k).name
            /\ l.x = PointPixel(TheChart, chartArea, k).x
            /\ l.y = PointPixel(TheChart, chartArea, k).y
            /\ l.align = "top"
            /\ l.anchor = "end"

\* Two items of different names are drawn while the pointer is on the first:
\* the second, not hovered, carries its own name.
C11_Witness ==
  /\ Drawn
  /\ Len(frameworks) = 2
  /\ frameworks[1].name # frameworks[2].name
  /\ pointer = 0
  /\ tooltip.shown
  /\ Len(DataLabels) = 2
  /\ DataLabels[2].text = frameworks[2].name

\* ---------------------------------------------------------------- C12
Legends == SelectSeq(canvas.painted, LAMBDA e : e.op = "legend")

\* C12: whatever hover events have happened, no point other than the one the
\* pointer is on is in hover style: each of them is painted as it is when
\* nothing is hovered (plain style, the dataset's own colour); and no legend
\* is painted.
C12_NoCrossHighlightNoLegend ==
  Drawn =>
    /\ active \subseteq {pointer}
    /\ Len(Points) = Len(frameworks)
    /\ \A j \in 0..(Len(frameworks) - 1) :
         j # pointer =>
           /\ ~At(Points, j).hover
           /\ At(Points, j).fillStyle =
                At(TheChart.config.data.datasets, j).backgroundColor
    /\ Legends = <<>>

\* The pointer is on the first of two points at different pixels, its
\* tooltip is shown, and the second point is painted in plain style.
C12_Witness ==
  /\ Drawn
  /\ Len(frameworks) = 2
  /\ pointer = 0
  /\ tooltip.shown
  /\ PointPixel(TheChart, chartArea, 0) # PointPixel(TheChart, chartArea, 1)
  /\ Len(Points) = 2
  /\ ~Points[2].hover

\* ---------------------------------------------------------------- C13
\* The scores of the range [0, 10], in steps of half a score.
ScoreValues == Num(0)..Num(10)

PixelX(v) == getPixelForValue("x", TheChart.config.options.scales.x, chartArea, v)
PixelY(v) == getPixelForValue("y", TheChart.config.options.scales.y, chartArea, v)

\* C13: under every layout the pixel of a score in [0, 10] grows strictly to
\* the right with the x score and strictly upwards (smaller pixel y) with
\* the y score, for neighbouring scores and for every two items drawn; and
\* the score is recovered from the pixel and the scale parameters.
C13_PixelMonotonicInvertible ==
  Drawn =>
    /\ \A v \in ScoreValues \ {Num(10)} :
         /\ PixelX(v) < PixelX(v + 1)
         /\ PixelY(v) > PixelY(v + 1)
    /\ \A v \in ScoreValues :
         /\ getValueForPixel("x", TheChart.config.options.scales.x, chartArea, PixelX(v)) = v
         /\ getValueForPixel("y", TheChart.config.options.scales.y, chartArea, PixelY(v)) = v
    /\ \A i, j \in 0..(Len(frameworks) - 1) :
         (InRange(At(frameworks, i)) /\ InRange(At(frameworks, j))) =>
           LET a == At(frameworks, i).review
               b == At(frameworks, j).review
               pa == At(Points, i)
               pb == At(Points, j)
           IN /\ (a.fit < b.fit) => (pa.x < pb.x)
              /\ (a.maturity < b.maturity) => (pa.y > pb.y)
              /\ (pa.x = pb.x /\ pa.y = pb.y) => (a = b)

\* Two items in range are drawn, the second with the larger x score and the
\* smaller y score: it lies to the right of and below the first.
C13_Witness ==
  /\ Drawn
  /\ Len(frameworks) = 2
  /\ InRange(frameworks[1]) /\ InRange(frameworks[2])
  /\ frameworks[1].review.fit < frameworks[2].review.fit
  /\ frameworks[1].review.maturity > frameworks[2].review.maturity
  /\ Len(Points) = 2
  /\ Points[1].x < Points[2].x
  /\ Points[1].y < Points[2].y

\* ---------------------------------------------------------------- C14
\* C14: no step of the page (script evaluation, page-ready handler, layout,
\* redraw with the draw hook and the datalabel formatter, hover with the
\* tooltip callbacks, hover-out, index list) changes the item list, and once
\* the chart is constructed its datasets stay those built from that list.
C14_ItemListNeverModified ==
  [][ /\ frameworks' = frameworks
      /\ (charts # <<>> => charts' = charts) ]_vars

\* The embedded list after the chart was drawn and its last point hovered:
\* it is the embedded list still and the datasets are those built from it.
C14_Witness ==
  /\ Drawn
  /\ frameworks = EmbeddedFrameworks
  /\ pointer = Len(EmbeddedFrameworks) - 1
  /\ tooltip.shown
  /\ Len(DataLabels) = Len(EmbeddedFrameworks)
  /\ TheChart.config.data.datasets = Datasets(EmbeddedFrameworks)

\* ---------------------------------------------------------------- C15
\* C15: a hover has been handled only after the page-ready handler has
\* constructed the chart and its first draw is complete (the four
\* rectangles and every point are painted); and the tooltip displayed is
\* one tooltip, that of the latest hover target: it has one body line per
\* item, each item in it once, the target among them, every one of them at
\* the target's pixel.  With no target nothing of a tooltip is displayed.
C15_OneTooltipOfLatestTarget ==
  /\ (pointer >= 0 \/ tooltip.shown \/ active # {}) =>
       /\ phase = "ready"
       /\ Drawn
       /\ Len(Rects) = 4
       /\ Len(Points) = Len(frameworks)
  /\ tooltip.shown =>
       /\ pointer \in 0..(Len(frameworks) - 1)
       /\ Has(tooltip.items, pointer)
       /\ IsInjective(tooltip.items)
       /\ Len(tooltip.body) = Len(tooltip.items)
       /\ \A n \in 1..Len(tooltip.items) :
            PointPixel(TheChart, chartArea, tooltip.items[n]) =
              PointPixel(TheChart, chartArea, pointer)
  /\ ~tooltip.shown =>
       /\ pointer = 0 - 1
       /\ tooltip.title = ""
       /\ tooltip.body = <<>>

\* The pointer is on the second of two points at different pixels (every
\* run that gets there from a hover of the first point included): the
\* tooltip shows the second point alone.
C15_Witness ==
  /\ Drawn
  /\ Len(frameworks) = 2
  /\ PointPixel(TheChart, chartArea, 0) # PointPixel(TheChart, chartArea, 1)
  /\ pointer = 1
  /\ tooltip.shown
  /\ tooltip.items = <<1>>
  /\ tooltip.title = frameworks[2].name
  /\ tooltip.body = <<frameworks[2].description>>

\* ---------------------------------------------------------------- C16
\* C16: in every drawn state, so after every redraw and every change of the
\* chart area, the hook has run in the latest draw and painted before the
\* points and data labels, and the corner the four rectangles share is the
\* pixel of the value 5 on both axes under the current chart area: the
\* middle of that area, where a point of score 5 is drawn.
C16_HookFirstSplitAtFive ==
  Drawn =>
    /\ canvas.calls # <<>>
    /\ Len(Rects) = 4
    /\ \A i, j \in 1..Len(canvas.painted) :
         ( /\ canvas.painted[i].op \in {"fillRect", "fillText"}
           /\ canvas.painted[j].op \in {"point", "datalabel"} ) => i < j
    /\ Rects[1].x = PixelX(Num(5)) /\ Rects[1].y + Rects[1].h = PixelY(Num(5))
    /\ Rects[2].x + Rects[2].w = PixelX(Num(5))
    /\ Rects[2].y + Rects[2].h = PixelY(Num(5))
    /\ Rects[3].x + Rects[3].w = PixelX(Num(5)) /\ Rects[3].y = PixelY(Num(5))
    /\ Rects[4].x = PixelX(Num(5)) /\ Rects[4].y = PixelY(Num(5))
    /\ 2 * PixelX(Num(5)) = chartArea.left + chartArea.right
    /\ 2 * PixelY(Num(5)) = chartArea.top + chartArea.bottom
    /\ \A k \in 0..(Len(frameworks) - 1) :
         /\ At(frameworks, k).review.fit = Num(5) => At(Points, k).x = Rects[1].x
         /\ At(frameworks, k).review.maturity = Num(5) => At(Points, k).y = Rects[3].y

\* A redraw (by a hover) under an inset chart area narrower than the canvas,
\* with an item of x score 5: its point lies on the vertical dividing line.
C16_Witness ==
  /\ Drawn
  /\ chartArea.left > 0
  /\ chartArea.right - chartArea.left < chartArea.bottom
  /\ pointer >= 0
  /\ \E k \in 0..(Len(frameworks) - 1) :
       /\ At(frameworks, k).review.fit = Num(5)
       /\ At(Points, k).x = Rects[4].x
  /\ canvas.painted[1].op = "fillRect"
  /\ canvas.painted[Len(canvas.painted)].op = "datalabel"

\* ---------------------------------------------------------------- C17
\* p lies strictly inside the rectangle fillRect(x, y, w, h) paints.
StrictlyInside(r, p) ==
  /\ Min2(r.x, r.x + r.w) < p.x /\ p.x < Max2(r.x, r.x + r.w)
  /\ Min2(r.y, r.y + r.h) < p.y /\ p.y < Max2(r.y, r.y + r.h)

\* C17: the four labels follow one placement: the i-th label is drawn
\* centred (textAlign center, textBaseline middle) on the centre of the i-th
\* rectangle; when that rectangle has positive width and height the anchor
\* lies strictly inside it and in none of the other three, edges included.
C17_LabelAtCentreOfOwnQuadrant ==
  Drawn =>
    /\ Len(Texts) = 4
    /\ Len(Rects) = 4
    /\ \A i \in 1..4 :
         /\ Texts[i].textAlign = "center"
         /\ Texts[i].textBaseline = "middle"
         /\ 2 * Texts[i].x = 2 * Rects[i].x + Rects[i].w
         /\ 2 * Texts[i].y = 2 * Rects[i].y + Rects[i].h
         /\ (Rects[i].w > 0 /\ Rects[i].h > 0) =>
              /\ StrictlyInside(Rects[i], Texts[i])
              /\ \A j \in 1..4 : j # i => ~InRectClosed(Rects[j], Texts[i])

\* The chart is drawn under an inset chart area higher than wide: all four
\* rectangles have positive extent and the 'Avoid' label lies strictly
\* inside the third, left of and below the shared corner.
C17_Witness ==
  /\ Drawn
  /\ chartArea.left > 0
  /\ chartArea.right - chartArea.left < chartArea.bottom - chartArea.top
  /\ Len(Texts) = 4
  /\ \A i \in 1..4 : Rects[i].w > 0 /\ Rects[i].h > 0
  /\ Texts[3].text = "Avoid"
  /\ StrictlyInside(Rects[3], Texts[3])
  /\ Texts[3].x < MidPixel.x
  /\ Texts[3].y > MidPixel.y

\* ---------------------------------------------------------------- C18
\* C18: at most one chart is ever constructed; none exists before the
\* page-ready signal has fired (so none if it never fires); once it has
\* fired on a page that has the canvas, exactly one exists, whatever
\* redraws and hovers follow; and the datalabels plugin was registered
\* before the handler could run, so the chart was constructed with it.
C18_OneChartAfterPageReady ==
  /\ Len(charts) <= 1
  /\ phase # "ready" => charts = <<>>
  /\ (phase = "ready" /\ canvasPresent) => Len(charts) = 1
  /\ phase # "script" => Has(registered, "datalabels")
  /\ \A i \in 1..Len(charts) : Has(charts[i].registry, "datalabels")

\* After the signal and a later hover there is one chart, constructed with
\* the datalabels plugin, and it paints a label per item.
C18_Witness ==
  /\ phase = "ready"
  /\ Len(charts) = 1
  /\ Has(charts[1].registry, "datalabels")
  /\ Drawn
  /\ pointer >= 0
  /\ Len(frameworks) = 2
  /\ Len(DataLabels) = 2

\* ---------------------------------------------------------------- C20
\* C20: while the chart has no chart area, every draw has left the context
\* untouched: the hook made no call on it (no save, no assignment, no
\* fillRect, no fillText), nothing is painted, the drawing state is the
\* context's own and nothing is saved.
C20_NoCanvasCallWithoutArea ==
  (HasChart /\ ~chartArea.defined) =>
    /\ canvas.calls = <<>>
    /\ canvas.painted = <<>>
    /\ canvas.state = DefaultDrawState
    /\ canvas.stack = <<>>

\* The chart of a non-empty list was constructed and drawn before any chart
\* area was set.
C20_Witness ==
  /\ phase = "ready"
  /\ HasChart
  /\ ~chartArea.defined
  /\ Len(frameworks) = 2
  /\ Len(TheChart.config.data.datasets) = 2
  /\ canvas = FreshCanvas

\* ---------------------------------------------------------------- C19
\* C19: on a page without an article, or without the 'toc' element, or
\* whose article has no h2/h3 header, the handler of review.js changes
\* nothing: the content of 'toc' and every header (its id included) stay as
\* they were, and no exception leaves the handler.
C19_TocBuilderGuardedNoOp ==
  [][ (~articlePresent \/ ~tocPresent \/ headers = <<>>) =>
        /\ tocContent' = tocContent
        /\ headers' = headers
        /\ tocError' = "none" ]_vars

\* The handler has run on a page with an article of two headers, the first
\* without id, and no 'toc' element: the header is still without id.
C19_Witness ==
  /\ tocPhase = "ready"
  /\ articlePresent
  /\ ~tocPresent
  /\ Len(headers) = 2
  /\ headers[1].id = <<>>
  /\ headers[1].textContent # <<>>
  /\ tocContent = EmptyContent
  /\ tocError = "none"

\* ---------------------------------------------------------------- C21
\* The number of states saved and not yet restored after the first n calls
\* of the latest draw.
OpenSaves(n) ==
  Cardinality({i \in 1..n : canvas.calls[i] = "save"}) -
  Cardinality({i \in 1..n : canvas.calls[i] = "restore"})

\* C21: after every draw the context is as the hook found it: the drawing
\* state is the context's own and nothing is left on the save stack.  The
\* hook's calls hold two saves and two restores, each restore closing the
\* one save open (never nested, never a restore without a save), and every
\* assignment of a style and every fill lies inside such a pair, so no
\* style set by the hook is in force when the points are drawn.
C21_SaveRestoreBalanced ==
  Drawn =>
    /\ canvas.state = DefaultDrawState
    /\ canvas.stack = <<>>
    /\ Cardinality({i \in DOMAIN canvas.calls : canvas.calls[i] = "save"}) = 2
    /\ Cardinality({i \in DOMAIN canvas.calls : canvas.calls[i] = "restore"}) = 2
    /\ OpenSaves(Len(canvas.calls)) = 0
    /\ \A n \in DOMAIN canvas.calls :
         /\ OpenSaves(n) \in {0, 1}
         /\ canvas.calls[n] = "save" => OpenSaves(n) = 1
         /\ canvas.calls[n] = "restore" => OpenSaves(n) = 0
         /\ canvas.calls[n] \notin {"save", "restore"} => OpenSaves(n) = 1
    /\ \A i \in 1..Len(Rects) : Rects[i].depth = 1
    /\ \A i \in 1..Len(Texts) : Texts[i].depth = 1 /\ Texts[i].fillStyle = "#333"
    /\ \A i \in 1..Len(Points) : Points[i].fillStyle # "#333"

\* The chart of two items has been redrawn by a hover: the hook painted its
\* last label in its own font and fill style, and the context is back in
\* its own state with an empty save stack.
C21_Witness ==
  /\ Drawn
  /\ pointer >= 0
  /\ Len(frameworks) = 2
  /\ Len(Texts) = 4
  /\ Texts[4].font = "bold 18px sans-serif"
  /\ Texts[4].fillStyle = "#333"
  /\ Rects[4].fillStyle = At(colors, 3)
  /\ canvas.calls[Len(canvas.calls)] = "restore"
  /\ canvas.state = DefaultDrawState
  /\ canvas.stack = <<>>

\* ---------------------------------------------------------------- C22
\* The rectangles (1: top-right, 2: top-left, 3: bottom-left, 4:
\* bottom-right) whose half-open pixel range [x, x+w) by [y, y+h) holds p.
Covering(p) == {i \in 1..Len(Rects) : InRect(Rects[i], p)}

\* Pixel of the score (fit, maturity) under the current layout.
PixelOf(fit, maturity) == [x |-> PixelX(fit), y |-> PixelY(maturity)]

\* C22 as stated: every point of the range with a score on a dividing line
\* is covered by exactly one rectangle, a right-hand one for score_x = 5
\* and a bottom one for score_y = 5.
C22_TieCoveredByOneRect ==
  Drawn =>
    \A v \in ScoreValues :
      /\ \E i \in {1, 4} : Covering(PixelOf(Num(5), v)) = {i}
      /\ \E i \in {3, 4} : Covering(PixelOf(v, Num(5))) = {i}

\* C22 (amended): a point with score_x = 5 and score_y > 0 is covered by
\* exactly one rectangle, a right-hand one (top-right above the horizontal
\* line, bottom-right on or below it); a point with score_y = 5 and
\* score_x < 10 is covered by exactly one, a bottom one (bottom-left left
\* of the vertical line, bottom-right on or right of it).  A point on the
\* bottom edge (score_y = 0) or the right edge (score_x = 10) of the chart
\* area is covered by none, the half-open ranges ending there.  The points
\* of the items drawn follow the same rule.
C22_TieBreakInsideArea ==
  Drawn =>
    /\ \A v \in ScoreValues :
         /\ Covering(PixelOf(Num(5), v)) =
              (IF v = Num(0) THEN {} ELSE IF v > Num(5) THEN {1} ELSE {4})
         /\ Covering(PixelOf(v, Num(5))) =
              (IF v = Num(10) THEN {} ELSE IF v < Num(5) THEN {3} ELSE {4})
    /\ \A k \in 0..(Len(frameworks) - 1) :
         LET fw == At(frameworks, k)
             p == [x |-> At(Points, k).x, y |-> At(Points, k).y]
         IN (InRange(fw) /\ fw.review.fit = Num(5) /\ fw.review.maturity > Num(0)) =>
              Covering(p) = (IF fw.review.maturity > Num(5) THEN {1} ELSE {4})

\* An item with x score 5 and a y score below 5 is drawn: its point lies on
\* the vertical dividing line and the bottom-right rectangle alone covers it.
C22_Witness ==
  /\ Drawn
  /\ \E k \in 0..(Len(frameworks) - 1) :
       /\ At(frameworks, k).review.fit = Num(5)
       /\ At(frameworks, k).review.maturity < Num(5)
       /\ At(Points, k).x = MidPixel.x
       /\ Covering([x |-> At(Points, k).x, y |-> At(Points, k).y]) = {4}
  /\ Covering(PixelOf(Num(5), Num(0))) = {}
  /\ Covering(PixelOf(Num(2), Num(5))) = {3}

\* ---------------------------------------------------------------- C23
\* C23: the list embedded in the script is non-empty, each of its items has
\* both scores in [0, 10], and no two of its items have the same name; so
\* the chart built from it has one dataset label per item, all different.
C23_EmbeddedListValid ==
  frameworks = EmbeddedFrameworks =>
    /\ Len(frameworks) >= 1
    /\ \A i \in 1..Len(frameworks) : InRange(frameworks[i])
    /\ \A i, j \in 1..Len(frameworks) :
         frameworks[i].name = frameworks[j].name => i = j
    /\ HasChart =>
         LET ds == TheChart.config.data.datasets
         IN /\ Len(ds) = Len(frameworks)
            /\ \A i, j \in 1..Len(ds) : ds[i].label = ds[j].label => i = j

\* The chart of the embedded list is drawn: eleven points, each inside the
\* chart area's closed range, under eleven different labels.
C23_Witness ==
  /\ frameworks = EmbeddedFrameworks
  /\ Drawn
  /\ Len(Points) = 11
  /\ Cardinality({DataLabels[i].text : i \in 1..Len(DataLabels)}) = 11
  /\ \A i \in 1..Len(Points) :
       /\ chartArea.left <= Points[i].x /\ Points[i].x <= chartArea.right
       /\ chartArea.top <= Points[i].y /\ Points[i].y <= chartArea.bottom

\* ---------------------------------------------------------------- C27
\* C27: under every layout the pixel of (5, 5) lies within the chart area,
\* every rectangle passed to fillRect has a width and a height of at least
\* 0, and side by side the rectangles make up the area's extent: left and
\* right widths add up to the area's width in the upper and in the lower
\* row, upper and lower heights to the area's height in both columns.
C27_ExtentsNonNegativeAndSumUp ==
  Drawn =>
    /\ chartArea.left <= MidPixel.x /\ MidPixel.x <= chartArea.right
    /\ chartArea.top <= MidPixel.y /\ MidPixel.y <= chartArea.bottom
    /\ Len(Rects) = 4
    /\ \A i \in 1..4 : Rects[i].w >= 0 /\ Rects[i].h >= 0
    /\ Rects[2].w + Rects[1].w = chartArea.right - chartArea.left
    /\ Rects[3].w + Rects[4].w = chartArea.right - chartArea.left
    /\ Rects[1].h + Rects[4].h = chartArea.bottom - chartArea.top
    /\ Rects[2].h + Rects[3].h = chartArea.bottom - chartArea.top

\* An inset chart area that does not start at the canvas origin: the upper
\* two widths add up to its width, which is less than its right edge.
C27_Witness ==
  /\ Drawn
  /\ chartArea.left > 0
  /\ chartArea.top > 0
  /\ Len(Rects) = 4
  /\ Rects[1].w > 0
  /\ Rects[2].w > 0
  /\ Rects[1].w + Rects[2].w = chartArea.right - chartArea.left
  /\ Rects[1].w + Rects[2].w < chartArea.right
  /\ Rects[1].h + Rects[4].h < chartArea.bottom

\* ---------------------------------------------------------------- C24
\* The handler has run on a page with an article of at least one header and
\* the 'toc' element: the table of contents has been built.
TocBuilt == tocPhase = "ready" /\ articlePresent /\ tocPresent /\ headers # <<>>

\* C24 as stated: once the table of contents is built it has the title and
\* exactly one entry per header, in document order; the link of entry i
\* targets '#' followed by the id header i has now, and the entry is
\* indented exactly when header i is an h3.
C24_OneEntryPerHeader ==
  TocBuilt =>
    /\ tocContent.title =
         << "T", "a", "b", "l", "e", " ", "o", "f", " ",
            "C", "o", "n", "t", "e", "n", "t", "s" >>
    /\ Len(tocContent.entries) = Len(headers)
    /\ \A i \in 1..Len(headers) :
         /\ tocContent.entries[i].href = <<"#">> \o headers[i].id
         /\ tocContent.entries[i].indent = (headers[i].tagName = "H3")

\* ---------------------------------------------------------------- C25
\* The characters the claim allows in an id: lower-case letters, digits,
\* "_" and "-".
IdChars == {LowerLetters[i] : i \in DOMAIN LowerLetters} \cup Digits \cup {"_", "-"}

\* C25 as stated: when the handler builds the table of contents it leaves
\* every id a header has as it is, and afterwards every header has a
\* non-empty id made of lower-case letters, digits, "_" and "-" only.
C25_EveryHeaderGetsCleanId ==
  [][ (articlePresent /\ tocPresent /\ tocPhase = "loading" /\ tocPhase' = "ready") =>
        /\ Len(headers') = Len(headers)
        /\ \A i \in 1..Len(headers) :
             /\ headers[i].id # <<>> => headers'[i] = headers[i]
             /\ headers'[i].id # <<>>
             /\ \A j \in 1..Len(headers'[i].id) : headers'[i].id[j] \in IdChars ]_vars

\* ---------------------------------------------------------------- C26
\* C26: when the handler builds the table of contents, two headers without
\* id whose texts give the same string after trim, lower-casing, the
\* replacement of white-space runs by "-" and the removal of the other
\* non-word characters end with the same id, that string, and the table of
\* contents holds at least two links to '#' followed by it.
C26_GeneratedIdsNotDeduplicated ==
  [][ (articlePresent /\ tocPresent /\ tocPhase = "loading" /\ tocPhase' = "ready") =>
        \A i, j \in 1..Len(headers) :
          ( /\ i # j
            /\ headers[i].id = <<>>
            /\ headers[j].id = <<>>
            /\ GeneratedId(headers[i].textContent) = GeneratedId(headers[j].textContent) ) =>
            /\ headers'[i].id = GeneratedId(headers[i].textContent)
            /\ headers'[j].id = headers'[i].id
            /\ Cardinality({ e \in 1..Len(tocContent'.entries) :
                  tocContent'.entries[e].href = <<"#">> \o headers'[i].id }) >= 2 ]_vars

\* The table of contents of two headers of different texts that both carry
\* the id 'my-fit', which no page source gives: both links target it.
C26_Witness ==
  /\ TocBuilt
  /\ Len(headers) = 2
  /\ headers[1].textContent # headers[2].textContent
  /\ headers[1].id = << "m", "y", "-", "f", "i", "t" >>
  /\ headers[2].id = headers[1].id
  /\ Len(tocContent.entries) = 2
  /\ tocContent.entries[1].href = << "#", "m", "y", "-", "f", "i", "t" >>
  /\ tocContent.entries[2].href = tocContent.entries[1].href

====
